---- MODULE Spec2Model ----
(***************************************************************************)
(* Profile-HMM sequence search (SPEC/hmmer): the model builder HMM::new,   *)
(* the Viterbi decoder HMM::viterbi in its two variants (the full-table    *)
(* decoder of host/src/hmmer_baseline.rs and the rolling two-row decoder   *)
(* of methods/guest/src/main.rs), the residue mapping aa_to_index, the     *)
(* record reader read_sequences and the ranking pipeline search_sequences. *)
(*                                                                         *)
(* Numbers.  An f64 is a record [k, v]: k is "fin" (v is the value),       *)
(* "ninf", "pinf" or "nan".  Log-space scores are fixed point, in          *)
(* thousandths of a nat; probabilities are fixed point, in millionths;     *)
(* an e-value is a binary exponent and a mantissa.  Ln and Exp are         *)
(* computed (piecewise polynomial in the binary exponent), so a score is   *)
(* a sum of computed logarithms, as in the code.                           *)
(*                                                                         *)
(* Indices.  Vectors indexed from 0 in the code (dp rows, score rows, the  *)
(* model's arrays) are functions on 0..n-1; byte strings and Vec<Sequence> *)
(* are TLA+ sequences, so sequence[i - 1] of the code is sequence[i] here. *)
(***************************************************************************)
EXTENDS Integers, Sequences, FiniteSets, TLC

\* ------------------------------------------------------------------ bounds
MaxModelLen == 3
MaxBatch == 2
MaxSeqLen == 1
MaxPairSeqLen == 3
MaxLines == 4
MaxCap == 2
MaxDegenerateLen == 2

\* ------------------------------------------------------------------- state
VARIABLES
    hmm_length,     \* the model length both programs are given
    sequences,      \* the batch: Sequence { name, data } records
    hpc,            \* host: main, search, fill, best, ret, done, panic, off
    h_hmm,          \* host: the model HMM::new returned
    hk,             \* host: sequences already searched
    dp,             \* host viterbi: the score table
    path,           \* host viterbi: the traceback table
    hi,             \* host viterbi: loop variable i
    hj,             \* host viterbi: loop variable j
    h_score,        \* host: the score viterbi returned
    h_results,      \* host: results of search_sequences
    gpc,            \* guest: main, search, row, cell, swap, best, ret, done, panic, off
    g_hmm,          \* guest: the model HMM::new returned
    gk,             \* guest: sequences already searched
    prev_scores,    \* guest viterbi: the previous row
    curr_scores,    \* guest viterbi: the current row
    gi,             \* guest viterbi: loop variable i
    gj,             \* guest viterbi: loop variable j
    g_score,        \* guest: the score viterbi returned
    g_results,      \* guest: results of search_sequences
    rpc,            \* reader: open, lines, last, synthetic, done, off
    file,           \* reader: [ok, lines], the file read_sequences is given
    max_sequences,  \* reader: the cap
    rl,             \* reader: lines consumed / synthetic records made
    current_name,   \* reader: the name of the record being read
    current_data,   \* reader: the residues of the record being read
    r_sequences,    \* reader: the Vec<Sequence> being built
    aa_in,          \* residue mapping: the byte given
    aa_out          \* residue mapping: the index returned, -1 before the call

host_vars == <<hpc, h_hmm, hk, dp, path, hi, hj, h_score, h_results>>
guest_vars == <<gpc, g_hmm, gk, prev_scores, curr_scores, gi, gj, g_score, g_results>>
input_vars == <<hmm_length, sequences>>
reader_vars == <<rpc, file, max_sequences, rl, current_name, current_data, r_sequences>>
aa_vars == <<aa_in, aa_out>>
vars == <<input_vars, host_vars, guest_vars, reader_vars, aa_vars>>

\* ------------------------------------------------------------- f64 values
Fin(n) == [k |-> "fin", v |-> n]
NEG_INFINITY == [k |-> "ninf", v |-> 0]
INFINITY == [k |-> "pinf", v |-> 0]
NAN == [k |-> "nan", v |-> 0]

IsFinite(a) == a.k = "fin"
IsNaN(a) == a.k = "nan"

\* a + b of f64
FAdd(a, b) ==
    IF IsNaN(a) \/ IsNaN(b) THEN NAN
    ELSE IF a.k = "ninf" THEN (IF b.k = "pinf" THEN NAN ELSE NEG_INFINITY)
    ELSE IF a.k = "pinf" THEN (IF b.k = "ninf" THEN NAN ELSE INFINITY)
    ELSE IF b.k = "fin" THEN Fin(a.v + b.v)
    ELSE b

\* -a of f64
FNeg(a) ==
    IF a.k = "fin" THEN Fin(0 - a.v)
    ELSE IF a.k = "ninf" THEN INFINITY
    ELSE IF a.k = "pinf" THEN NEG_INFINITY
    ELSE NAN

\* a > b of f64 (false when either is NaN)
FGt(a, b) ==
    /\ ~IsNaN(a)
    /\ ~IsNaN(b)
    /\ \/ a.k = "pinf" /\ b.k # "pinf"
       \/ a.k = "fin" /\ b.k = "ninf"
       \/ a.k = "fin" /\ b.k = "fin" /\ a.v > b.v

\* a >= b of f64 (false when either is NaN)
FGe(a, b) ==
    /\ ~IsNaN(a)
    /\ ~IsNaN(b)
    /\ (FGt(a, b) \/ a = b)

\* f64::max: the other operand when one is NaN
FMax(a, b) ==
    IF IsNaN(a) THEN b
    ELSE IF IsNaN(b) THEN a
    ELSE IF FGe(a, b) THEN a ELSE b

\* 2^e
Pow2(e) == 2 ^ e

\* the binary exponent of an integer p >= 1: 2^e <= p < 2^(e + 1)
Log2Floor(p) == CHOOSE e \in 0..29 : Pow2(e) <= p /\ p < Pow2(e + 1)

\* thousandths of log2(p) for an integer p >= 1: the binary exponent plus a
\* quadratic approximation of log2 of the mantissa
Log2Milli(p) ==
    LET e == Log2Floor(p)
        x == ((p - Pow2(e)) * 1000) \div Pow2(e)
    IN  1000 * e + x + (346 * x * (1000 - x)) \div 1000000

\* f64::ln of a probability held in millionths: -inf at 0, NaN below 0
Ln(p) ==
    IF p < 0 THEN NAN
    ELSE IF p = 0 THEN NEG_INFINITY
    ELSE Fin((693 * (Log2Milli(p) - Log2Milli(1000000))) \div 1000)

\* f64::exp of a value in thousandths (infinite above 709.782).  The result spans too many orders of
\* magnitude for fixed point and is kept as a binary exponent e and a
\* mantissa m, in thousandths: m / 1000 * 2^e
Exp(a) ==
    IF IsNaN(a) THEN NAN
    ELSE IF a.k = "pinf" THEN INFINITY
    ELSE IF a.k = "ninf" THEN [k |-> "zero"]
    ELSE IF a.v > 709782 THEN INFINITY
    ELSE [k |-> "fin", e |-> a.v \div 693, m |-> 1000 + ((a.v % 693) * 1000) \div 693]

\* a <= b of two results of Exp (false when either is NaN)
ExpLe(a, b) ==
    /\ ~IsNaN(a)
    /\ ~IsNaN(b)
    /\ \/ a.k = "zero"
       \/ b.k = "pinf"
       \/ /\ a.k = "fin"
          /\ b.k = "fin"
          /\ (a.e < b.e \/ (a.e = b.e /\ a.m <= b.m))

\* ---------------------------------------------------------------- alphabet
\* b"ACDEFGHIKLMNPQRSTVWY"
AMINO_ACIDS == <<65, 67, 68, 69, 70, 71, 72, 73, 75, 76,
                 77, 78, 80, 81, 82, 83, 84, 86, 87, 89>>
AA_COUNT == 20
U8_MAX == 255

\* mutant: the byte is looked up as it is
to_ascii_uppercase_AsIs(b) == b

\* u8::to_ascii_uppercase
to_ascii_uppercase(b) == IF b >= 97 /\ b <= 122 THEN b - 32 ELSE b

RECURSIVE aa_scan(_, _)
aa_scan(aa, i) ==
    IF i > Len(AMINO_ACIDS) THEN 0
    ELSE IF AMINO_ACIDS[i] = to_ascii_uppercase(aa) THEN i - 1
    ELSE aa_scan(aa, i + 1)

\* HMM::aa_to_index: the first position of the alphabet holding the
\* upper-cased byte, 0 when there is none
aa_to_index(aa) == aa_scan(aa, 1)

\* ------------------------------------------------------------------- model
\* the fixed probabilities of HMM::new, in millionths
P_MATCH_TO_MATCH == 800000
P_MATCH_TO_INSERT == 100000
P_MATCH_TO_DELETE == 100000
P_INSERT_TO_MATCH == 500000
P_INSERT_TO_INSERT == 500000
P_DELETE_TO_MATCH == 500000
P_DELETE_TO_DELETE == 500000
P_INSERT_EMISSION == 50000

\* aa_freqs, in thousandths
aa_freqs == <<74, 25, 54, 62, 42, 73, 23, 52, 24, 58, 99, 45,
              39, 57, 73, 73, 52, 13, 34, 68>>

\* match_emissions[i][j] = aa_freqs[j] * (1.0 + 0.2 * (i / length))
match_emission(i, j, length) == aa_freqs[j + 1] * (1000 + (200 * i) \div length)

\* HMM::new(length): no check of length; every array has length entries
HMMNew(length) ==
    [ length |-> length,
      match_to_match |-> [i \in 0..(length - 1) |-> P_MATCH_TO_MATCH],
      match_to_insert |-> [i \in 0..(length - 1) |-> P_MATCH_TO_INSERT],
      match_to_delete |-> [i \in 0..(length - 1) |-> P_MATCH_TO_DELETE],
      insert_to_match |-> [i \in 0..(length - 1) |-> P_INSERT_TO_MATCH],
      insert_to_insert |-> [i \in 0..(length - 1) |-> P_INSERT_TO_INSERT],
      delete_to_match |-> [i \in 0..(length - 1) |-> P_DELETE_TO_MATCH],
      delete_to_delete |-> [i \in 0..(length - 1) |-> P_DELETE_TO_DELETE],
      match_emissions |->
          [i \in 0..(length - 1) |->
              [j \in 0..(AA_COUNT - 1) |-> match_emission(i, j, length)]],
      insert_emissions |->
          [i \in 0..(length - 1) |->
              [j \in 0..(AA_COUNT - 1) |-> P_INSERT_EMISSION]] ]

\* the value of the model variable before HMM::new has run
NoModel == [length |-> -1]

\* ---------------------------------------------- full-table decoder (host)
\* mutant: the start state dp[0][0] = 0.0 is not set
HostNewTable_NoStart(seq_len, model_len) ==
    [ dp |-> [i \in 0..seq_len |->
                 [c \in 0..(model_len * 3 - 1) |-> NEG_INFINITY]],
      path |-> [i \in 0..seq_len |->
                 [c \in 0..(model_len * 3 - 1) |-> "Match"]] ]

\* vec![vec![f64::NEG_INFINITY; model_len * 3]; seq_len + 1], the path table
\* beside it, then dp[0][0] = 0.0
HostNewTable(seq_len, model_len) ==
    [ dp |-> [i \in 0..seq_len |->
                 [c \in 0..(model_len * 3 - 1) |->
                     IF i = 0 /\ c = 0 THEN Fin(0) ELSE NEG_INFINITY]],
      path |-> [i \in 0..seq_len |->
                 [c \in 0..(model_len * 3 - 1) |-> "Match"]] ]

\* dp[i][c] = score; path[i][c] = from
HostPut(t, i, c, score, from) ==
    [ dp |-> [t.dp EXCEPT ![i][c] = score],
      path |-> [t.path EXCEPT ![i][c] = from] ]

\* mutant: the Delete predecessor is left out of the Match update
HostMatch_NoDelete(hmm, sequence, t, i, j) ==
    LET aa_idx == aa_to_index(sequence[i])
        emit == Ln(hmm.match_emissions[j][aa_idx])
        prev_match == FAdd(FAdd(t.dp[i - 1][(j - 1) * 3],
                                Ln(hmm.match_to_match[j - 1])), emit)
        prev_insert == FAdd(FAdd(t.dp[i - 1][(j - 1) * 3 + 1],
                                 Ln(hmm.insert_to_match[j - 1])), emit)
    IN  IF FGe(prev_match, prev_insert)
        THEN HostPut(t, i, j * 3, prev_match, "Match")
        ELSE HostPut(t, i, j * 3, prev_insert, "Insert")

\* the Match state of cell (i, j), i > 0 and j > 0
HostMatch(hmm, sequence, t, i, j) ==
    LET aa_idx == aa_to_index(sequence[i])
        emit == Ln(hmm.match_emissions[j][aa_idx])
        prev_match == FAdd(FAdd(t.dp[i - 1][(j - 1) * 3],
                                Ln(hmm.match_to_match[j - 1])), emit)
        prev_insert == FAdd(FAdd(t.dp[i - 1][(j - 1) * 3 + 1],
                                 Ln(hmm.insert_to_match[j - 1])), emit)
        prev_delete == FAdd(FAdd(t.dp[i - 1][(j - 1) * 3 + 2],
                                 Ln(hmm.delete_to_match[j - 1])), emit)
    IN  IF FGe(prev_match, prev_insert) /\ FGe(prev_match, prev_delete)
        THEN HostPut(t, i, j * 3, prev_match, "Match")
        ELSE IF FGe(prev_insert, prev_delete)
        THEN HostPut(t, i, j * 3, prev_insert, "Insert")
        ELSE HostPut(t, i, j * 3, prev_delete, "Delete")

\* mutant: the comparison is strict, so a tie goes to the later candidate
HostInsert_StrictTie(hmm, sequence, t, i, j) ==
    LET aa_idx == aa_to_index(sequence[i])
        emit == Ln(hmm.insert_emissions[j][aa_idx])
        match_to_insert == FAdd(FAdd(t.dp[i - 1][j * 3],
                                     Ln(hmm.match_to_insert[j])), emit)
        insert_to_insert == FAdd(FAdd(t.dp[i - 1][j * 3 + 1],
                                      Ln(hmm.insert_to_insert[j])), emit)
    IN  IF FGt(match_to_insert, insert_to_insert)
        THEN HostPut(t, i, j * 3 + 1, match_to_insert, "Match")
        ELSE HostPut(t, i, j * 3 + 1, insert_to_insert, "Insert")

\* the Insert state of cell (i, j), i > 0
HostInsert(hmm, sequence, t, i, j) ==
    LET aa_idx == aa_to_index(sequence[i])
        emit == Ln(hmm.insert_emissions[j][aa_idx])
        match_to_insert == FAdd(FAdd(t.dp[i - 1][j * 3],
                                     Ln(hmm.match_to_insert[j])), emit)
        insert_to_insert == FAdd(FAdd(t.dp[i - 1][j * 3 + 1],
                                      Ln(hmm.insert_to_insert[j])), emit)
    IN  IF FGe(match_to_insert, insert_to_insert)
        THEN HostPut(t, i, j * 3 + 1, match_to_insert, "Match")
        ELSE HostPut(t, i, j * 3 + 1, insert_to_insert, "Insert")

\* mutant: the Delete update reads the row before, as Match and Insert do
HostDelete_RowBefore(hmm, t, i, j) ==
    LET before == IF i > 0 THEN i - 1 ELSE i
        match_to_delete == FAdd(t.dp[before][(j - 1) * 3],
                                Ln(hmm.match_to_delete[j - 1]))
        delete_to_delete == FAdd(t.dp[before][(j - 1) * 3 + 2],
                                 Ln(hmm.delete_to_delete[j - 1]))
    IN  IF FGe(match_to_delete, delete_to_delete)
        THEN HostPut(t, i, j * 3 + 2, match_to_delete, "Match")
        ELSE HostPut(t, i, j * 3 + 2, delete_to_delete, "Delete")

\* the Delete state of cell (i, j), j > 0; computed in row 0 as well
HostDelete(hmm, t, i, j) ==
    LET match_to_delete == FAdd(t.dp[i][(j - 1) * 3],
                                Ln(hmm.match_to_delete[j - 1]))
        delete_to_delete == FAdd(t.dp[i][(j - 1) * 3 + 2],
                                 Ln(hmm.delete_to_delete[j - 1]))
    IN  IF FGe(match_to_delete, delete_to_delete)
        THEN HostPut(t, i, j * 3 + 2, match_to_delete, "Match")
        ELSE HostPut(t, i, j * 3 + 2, delete_to_delete, "Delete")

\* one iteration of the inner loop: Match, then Insert, then Delete
HostCell(hmm, sequence, t, i, j) ==
    LET t1 == IF i > 0 /\ j > 0 THEN HostMatch(hmm, sequence, t, i, j) ELSE t
        t2 == IF i > 0 THEN HostInsert(hmm, sequence, t1, i, j) ELSE t1
    IN  IF j > 0 THEN HostDelete(hmm, t2, i, j) ELSE t2

\* mutant: best_score lives on between calls (the last score returned)
HostBestInit_Stale == h_score

\* the initial value of best_score
HostBestInit == NEG_INFINITY

RECURSIVE BestFrom(_, _, _, _)
BestFrom(row, j, model_len, best) ==
    IF j >= model_len THEN best
    ELSE BestFrom(row, j + 1, model_len,
                  IF FGt(row[j * 3], best) THEN row[j * 3] ELSE best)

\* mutant: the final loop runs over every state of the last row
HostBest_AllStates(t, seq_len, model_len) ==
    BestFrom([c \in 0..(model_len * 9 - 1) |-> t.dp[seq_len][c \div 3]],
             0, model_len * 3, HostBestInit)

\* the best final score: the largest dp[seq_len][j * 3]
HostBest(t, seq_len, model_len) ==
    BestFrom(t.dp[seq_len], 0, model_len, HostBestInit)

RECURSIVE HostFill(_, _, _, _)
\* the fill loops from cell number c on (row c \div model_len), until the
\* row is past the last row of dp
HostFill(hmm, sequence, t, c) ==
    IF c \div hmm.length \notin DOMAIN t.dp THEN t
    ELSE HostFill(hmm, sequence,
                  HostCell(hmm, sequence, t, c \div hmm.length, c % hmm.length),
                  c + 1)

\* HMM::viterbi of the host, for a model of length >= 1 (the function
\* panics at dp[0][0] = 0.0 when the length is 0)
HostViterbi(hmm, sequence) ==
    BestFrom(HostFill(hmm, sequence,
                      HostNewTable(Len(sequence), hmm.length), 0).dp[Len(sequence)],
             0, hmm.length, NEG_INFINITY)

\* ------------------------------------------- rolling-row decoder (guest)
\* vec![f64::NEG_INFINITY; model_len * 3], then prev_scores[0] = 0.0
GuestNewPrev(model_len) ==
    [c \in 0..(model_len * 3 - 1) |-> IF c = 0 THEN Fin(0) ELSE NEG_INFINITY]

\* vec![f64::NEG_INFINITY; model_len * 3]; also the reset of a row
GuestNewCurr(model_len) ==
    [c \in 0..(model_len * 3 - 1) |-> NEG_INFINITY]

\* the Match state of column j, j > 0
GuestMatch(hmm, aa_idx, prev, curr, j) ==
    LET match_score == Ln(hmm.match_emissions[j][aa_idx])
        from_match == FAdd(FAdd(prev[(j - 1) * 3],
                                Ln(hmm.match_to_match[j - 1])), match_score)
        from_insert == FAdd(FAdd(prev[(j - 1) * 3 + 1],
                                 Ln(hmm.insert_to_match[j - 1])), match_score)
        from_delete == FAdd(FAdd(prev[(j - 1) * 3 + 2],
                                 Ln(hmm.delete_to_match[j - 1])), match_score)
    IN  [curr EXCEPT ![j * 3] = FMax(FMax(from_match, from_insert), from_delete)]

\* the Insert state of column j
GuestInsert(hmm, aa_idx, prev, curr, j) ==
    LET insert_score == Ln(hmm.insert_emissions[j][aa_idx])
        match_to_insert == FAdd(FAdd(prev[j * 3],
                                     Ln(hmm.match_to_insert[j])), insert_score)
        insert_to_insert == FAdd(FAdd(prev[j * 3 + 1],
                                      Ln(hmm.insert_to_insert[j])), insert_score)
    IN  [curr EXCEPT ![j * 3 + 1] = FMax(match_to_insert, insert_to_insert)]

\* the Delete state of column j, j > 0: read from the current row
GuestDelete(hmm, curr, j) ==
    LET match_to_delete == FAdd(curr[(j - 1) * 3],
                                Ln(hmm.match_to_delete[j - 1]))
        delete_to_delete == FAdd(curr[(j - 1) * 3 + 2],
                                 Ln(hmm.delete_to_delete[j - 1]))
    IN  [curr EXCEPT ![j * 3 + 2] = FMax(match_to_delete, delete_to_delete)]

\* one iteration of the inner loop: Match, then Insert, then Delete
GuestCell(hmm, aa_idx, prev, curr, j) ==
    LET c1 == IF j > 0 THEN GuestMatch(hmm, aa_idx, prev, curr, j) ELSE curr
        c2 == GuestInsert(hmm, aa_idx, prev, c1, j)
    IN  IF j > 0 THEN GuestDelete(hmm, c2, j) ELSE c2

RECURSIVE GuestRow(_, _, _, _, _)
\* the inner loop from column j on, until the column is past the row
GuestRow(hmm, aa_idx, prev, curr, j) ==
    IF j * 3 \notin DOMAIN curr THEN curr
    ELSE GuestRow(hmm, aa_idx, prev, GuestCell(hmm, aa_idx, prev, curr, j), j + 1)

RECURSIVE GuestFill(_, _, _, _)
\* the outer loop from residue i on (1-based); the row left in prev_scores
GuestFill(hmm, sequence, prev, i) ==
    IF i > Len(sequence) THEN prev
    ELSE GuestFill(hmm, sequence,
                   GuestRow(hmm, aa_to_index(sequence[i]), prev,
                            GuestNewCurr(hmm.length), 0),
                   i + 1)

\* the best final score: the largest prev_scores[j * 3]
GuestBest(prev, model_len) == BestFrom(prev, 0, model_len, NEG_INFINITY)

\* HMM::viterbi of the guest, for a model of length >= 1 (the function
\* panics at prev_scores[0] = 0.0 when the length is 0)
GuestViterbi(hmm, sequence) ==
    GuestBest(GuestFill(hmm, sequence, GuestNewPrev(hmm.length), 1), hmm.length)

\* --------------------------------------------------------- search pipeline
\* mutant: the span ends at the last residue instead of one past it
HostResult_EndAtLast(seq, score) ==
    [ sequence_name |-> seq.name,
      score |-> score,
      e_value |-> Exp(FNeg(score)),
      alignment_start |-> 0,
      alignment_end |-> IF Len(seq.data) = 0 THEN 0 ELSE Len(seq.data) - 1 ]

\* SearchResult { sequence_name, score, e_value, alignment_start, alignment_end }
HostResult(seq, score) ==
    [ sequence_name |-> seq.name,
      score |-> score,
      e_value |-> Exp(FNeg(score)),
      alignment_start |-> 0,
      alignment_end |-> Len(seq.data) ]

GuestResult(seq, score) ==
    [ sequence_name |-> seq.name,
      score |-> score,
      e_value |-> Exp(FNeg(score)),
      alignment_start |-> 0,
      alignment_end |-> Len(seq.data) ]

\* mutant: equal scores compare as Less too, so ties are reordered
SortLess_TiesLess(a, b) == FGe(a.score, b.score)

\* the comparator b.score.partial_cmp(&a.score) gives Less: a goes before b
SortLess(a, b) == FGt(a.score, b.score)

RECURSIVE InsertAt(_, _, _)
\* x placed before the first element of sorted, from position p on, that x
\* goes before: after every element that compares less than or equal to x
InsertAt(sorted, x, p) ==
    IF p > Len(sorted) THEN Append(sorted, x)
    ELSE IF SortLess(x, sorted[p])
    THEN SubSeq(sorted, 1, p - 1) \o <<x>> \o SubSeq(sorted, p, Len(sorted))
    ELSE InsertAt(sorted, x, p + 1)

RECURSIVE SortFrom(_, _, _)
SortFrom(rs, sorted, p) ==
    IF p > Len(rs) THEN sorted
    ELSE SortFrom(rs, InsertAt(sorted, rs[p], 1), p + 1)

\* results.sort_by(..): a stable sort by the comparator
SortBy(rs) == SortFrom(rs, <<>>, 1)

\* mutant: an infinite score is taken for an incomparable one
CompareFails_OnInfinite(rs) ==
    Len(rs) >= 2 /\ \E p \in 1..Len(rs) : ~IsFinite(rs[p].score)

\* partial_cmp is None for some pair the sort compares: a NaN score among
\* two or more results
CompareFails(rs) == Len(rs) >= 2 /\ \E p \in 1..Len(rs) : IsNaN(rs[p].score)

\* ------------------------------------------------------------ host program
\* let hmm = HMM::new(hmm_length);
HostNew ==
    /\ hpc = "main"
    /\ h_hmm' = HMMNew(hmm_length)
    /\ hpc' = "search"
    /\ UNCHANGED <<hk, dp, path, hi, hj, h_score, h_results>>
    /\ UNCHANGED <<input_vars, guest_vars, reader_vars, aa_vars>>

\* search_sequences calls hmm.viterbi(&seq.data): the tables are allocated
\* and dp[0][0] = 0.0 is out of bounds when the model has no column
HostViterbiStart ==
    /\ hpc = "search"
    /\ hk < Len(sequences)
    /\ IF h_hmm.length = 0
       THEN /\ hpc' = "panic"
            /\ UNCHANGED <<dp, path, hi, hj>>
       ELSE LET t == HostNewTable(Len(sequences[hk + 1].data), h_hmm.length)
            IN  /\ dp' = t.dp
                /\ path' = t.path
                /\ hi' = 0
                /\ hj' = 0
                /\ hpc' = "fill"
    /\ UNCHANGED <<h_hmm, hk, h_score, h_results>>
    /\ UNCHANGED <<input_vars, guest_vars, reader_vars, aa_vars>>

\* one iteration of for j in 0..model_len, within for i in 0..=seq_len
HostCellStep ==
    /\ hpc = "fill"
    /\ \E t \in {HostCell(h_hmm, sequences[hk + 1].data,
                          [dp |-> dp, path |-> path], hi, hj)} :
       LET seq == sequences[hk + 1].data
           row_done == hj + 1 = h_hmm.length
       IN  /\ dp' = t.dp
           /\ path' = t.path
           /\ hj' = IF row_done THEN 0 ELSE hj + 1
           /\ hi' = IF row_done THEN hi + 1 ELSE hi
           /\ hpc' = IF row_done /\ hi = Len(seq) THEN "best" ELSE "fill"
    /\ UNCHANGED <<h_hmm, hk, h_score, h_results>>
    /\ UNCHANGED <<input_vars, guest_vars, reader_vars, aa_vars>>

\* the final loop over dp[seq_len]; viterbi returns best_score
HostBestStep ==
    /\ hpc = "best"
    /\ h_score' = HostBest([dp |-> dp, path |-> path],
                           Len(sequences[hk + 1].data), h_hmm.length)
    /\ hpc' = "ret"
    /\ UNCHANGED <<h_hmm, hk, dp, path, hi, hj, h_results>>
    /\ UNCHANGED <<input_vars, guest_vars, reader_vars, aa_vars>>

\* results.push(SearchResult { .. })
HostPush ==
    /\ hpc = "ret"
    /\ h_results' = Append(h_results, HostResult(sequences[hk + 1], h_score))
    /\ hk' = hk + 1
    /\ hpc' = "search"
    /\ UNCHANGED <<h_hmm, dp, path, hi, hj, h_score>>
    /\ UNCHANGED <<input_vars, guest_vars, reader_vars, aa_vars>>

\* results.sort_by(|a, b| b.score.partial_cmp(&a.score).unwrap()); results
HostSort ==
    /\ hpc = "search"
    /\ hk = Len(sequences)
    /\ IF CompareFails(h_results)
       THEN hpc' = "panic" /\ UNCHANGED h_results
       ELSE hpc' = "done" /\ h_results' = SortBy(h_results)
    /\ UNCHANGED <<h_hmm, hk, dp, path, hi, hj, h_score>>
    /\ UNCHANGED <<input_vars, guest_vars, reader_vars, aa_vars>>

\* ----------------------------------------------------------- guest program
\* let hmm = HMM::new(input.hmm_length);
GuestNew ==
    /\ gpc = "main"
    /\ g_hmm' = HMMNew(hmm_length)
    /\ gpc' = "search"
    /\ UNCHANGED <<gk, prev_scores, curr_scores, gi, gj, g_score, g_results>>
    /\ UNCHANGED <<input_vars, host_vars, reader_vars, aa_vars>>

\* search_sequences calls hmm.viterbi(&seq.data): both rows are allocated
\* and prev_scores[0] = 0.0 is out of bounds when the model has no column
GuestViterbiStart ==
    /\ gpc = "search"
    /\ gk < Len(sequences)
    /\ IF g_hmm.length = 0
       THEN /\ gpc' = "panic"
            /\ UNCHANGED <<prev_scores, curr_scores, gi, gj>>
       ELSE /\ prev_scores' = GuestNewPrev(g_hmm.length)
            /\ curr_scores' = GuestNewCurr(g_hmm.length)
            /\ gi' = 0
            /\ gj' = 0
            /\ gpc' = IF Len(sequences[gk + 1].data) = 0 THEN "best" ELSE "row"
    /\ UNCHANGED <<g_hmm, gk, g_score, g_results>>
    /\ UNCHANGED <<input_vars, host_vars, reader_vars, aa_vars>>

\* the head of for i in 0..seq_len: curr_scores is reset
GuestRowStart ==
    /\ gpc = "row"
    /\ curr_scores' = GuestNewCurr(g_hmm.length)
    /\ gj' = 0
    /\ gpc' = "cell"
    /\ UNCHANGED <<g_hmm, gk, prev_scores, gi, g_score, g_results>>
    /\ UNCHANGED <<input_vars, host_vars, reader_vars, aa_vars>>

\* one iteration of for j in 0..model_len
GuestCellStep ==
    /\ gpc = "cell"
    /\ \E c \in {GuestCell(g_hmm, aa_to_index(sequences[gk + 1].data[gi + 1]),
                          prev_scores, curr_scores, gj)} : curr_scores' = c
    /\ gj' = gj + 1
    /\ gpc' = IF gj + 1 = g_hmm.length THEN "swap" ELSE "cell"
    /\ UNCHANGED <<g_hmm, gk, prev_scores, gi, g_score, g_results>>
    /\ UNCHANGED <<input_vars, host_vars, reader_vars, aa_vars>>

\* core::mem::swap(&mut prev_scores, &mut curr_scores)
GuestSwap ==
    /\ gpc = "swap"
    /\ prev_scores' = curr_scores
    /\ curr_scores' = prev_scores
    /\ gi' = gi + 1
    /\ gpc' = IF gi + 1 = Len(sequences[gk + 1].data) THEN "best" ELSE "row"
    /\ UNCHANGED <<g_hmm, gk, gj, g_score, g_results>>
    /\ UNCHANGED <<input_vars, host_vars, reader_vars, aa_vars>>

\* the final loop over prev_scores; viterbi returns best_score
GuestBestStep ==
    /\ gpc = "best"
    /\ g_score' = GuestBest(prev_scores, g_hmm.length)
    /\ gpc' = "ret"
    /\ UNCHANGED <<g_hmm, gk, prev_scores, curr_scores, gi, gj, g_results>>
    /\ UNCHANGED <<input_vars, host_vars, reader_vars, aa_vars>>

\* results.push(SearchResult { .. })
GuestPush ==
    /\ gpc = "ret"
    /\ g_results' = Append(g_results, GuestResult(sequences[gk + 1], g_score))
    /\ gk' = gk + 1
    /\ gpc' = "search"
    /\ UNCHANGED <<g_hmm, prev_scores, curr_scores, gi, gj, g_score>>
    /\ UNCHANGED <<input_vars, host_vars, reader_vars, aa_vars>>

\* results.sort_by(.. .unwrap_or(Ordering::Equal)); results
GuestSort ==
    /\ gpc = "search"
    /\ gk = Len(sequences)
    /\ g_results' = SortBy(g_results)
    /\ gpc' = "done"
    /\ UNCHANGED <<g_hmm, gk, prev_scores, curr_scores, gi, gj, g_score>>
    /\ UNCHANGED <<input_vars, host_vars, reader_vars, aa_vars>>

\* ------------------------------------------------------------------ reader
\* the bytes str::trim removes at both ends (ASCII white space)
IsSpace(b) == b \in {9, 10, 11, 12, 13, 32}

RECURSIVE TrimStart(_)
TrimStart(line) ==
    IF Len(line) > 0 /\ IsSpace(line[1]) THEN TrimStart(Tail(line)) ELSE line

RECURSIVE TrimEnd(_)
TrimEnd(line) ==
    IF Len(line) > 0 /\ IsSpace(line[Len(line)])
    THEN TrimEnd(SubSeq(line, 1, Len(line) - 1))
    ELSE line

\* line.trim()
Trim(line) == TrimEnd(TrimStart(line))

\* line.starts_with('>')
IsHeader(line) == Len(line) > 0 /\ line[1] = 62

\* !current_name.is_empty() && !current_data.is_empty()
RecordComplete(name, data) == Len(name) > 0 /\ Len(data) > 0

RECURSIVE Decimal(_)
\* the decimal digits of i, as bytes
Decimal(i) == IF i < 10 THEN <<48 + i>> ELSE Decimal(i \div 10) \o <<48 + (i % 10)>>

\* format!("synthetic_seq_{}", i)
SyntheticName(i) ==
    <<115, 121, 110, 116, 104, 101, 116, 105, 99, 95, 115, 101, 113, 95>> \o Decimal(i)

\* the i-th synthetic sequence: 50 + (i % 200) residues,
\* AMINO_ACIDS[(i * 17 + j * 31) % AA_COUNT] at place j
SyntheticData(i) ==
    [j \in 1..(50 + (i % 200)) |-> AMINO_ACIDS[((i * 17 + (j - 1) * 31) % AA_COUNT) + 1]]

\* match File::open(filename)
ReadOpen ==
    /\ rpc = "open"
    /\ IF file.ok
       THEN rpc' = IF Len(file.lines) = 0 THEN "last" ELSE "lines"
       ELSE rpc' = IF max_sequences = 0 THEN "done" ELSE "synthetic"
    /\ rl' = 0
    /\ current_name' = <<>>
    /\ current_data' = <<>>
    /\ r_sequences' = <<>>
    /\ UNCHANGED <<file, max_sequences>>
    /\ UNCHANGED <<input_vars, host_vars, guest_vars, aa_vars>>

\* one iteration of for line in reader.lines()
ReadLine ==
    /\ rpc = "lines"
    /\ LET line == Trim(file.lines[rl + 1])
           push == IsHeader(line) /\ RecordComplete(current_name, current_data)
           pushed == IF push
                     THEN Append(r_sequences,
                                 [name |-> current_name, data |-> current_data])
                     ELSE r_sequences
           break == push /\ Len(pushed) >= max_sequences
       IN  /\ r_sequences' = pushed
           /\ current_name' = IF IsHeader(line) /\ ~break
                              THEN SubSeq(line, 2, Len(line))
                              ELSE current_name
           /\ current_data' = IF IsHeader(line)
                              THEN (IF break THEN current_data ELSE <<>>)
                              ELSE current_data \o line
           /\ rl' = rl + 1
           /\ rpc' = IF break \/ rl + 1 = Len(file.lines) THEN "last" ELSE "lines"
    /\ UNCHANGED <<file, max_sequences>>
    /\ UNCHANGED <<input_vars, host_vars, guest_vars, aa_vars>>

\* "Add last sequence", then sequences is returned
ReadLast ==
    /\ rpc = "last"
    /\ r_sequences' =
          IF RecordComplete(current_name, current_data)
             /\ Len(r_sequences) < max_sequences
          THEN Append(r_sequences, [name |-> current_name, data |-> current_data])
          ELSE r_sequences
    /\ rpc' = "done"
    /\ UNCHANGED <<file, max_sequences, rl, current_name, current_data>>
    /\ UNCHANGED <<input_vars, host_vars, guest_vars, aa_vars>>

\* one iteration of for i in 0..max_sequences, the file being absent
ReadSynthetic ==
    /\ rpc = "synthetic"
    /\ r_sequences' = Append(r_sequences,
                             [name |-> SyntheticName(rl), data |-> SyntheticData(rl)])
    /\ rl' = rl + 1
    /\ rpc' = IF rl + 1 = max_sequences THEN "done" ELSE "synthetic"
    /\ UNCHANGED <<file, max_sequences, current_name, current_data>>
    /\ UNCHANGED <<input_vars, host_vars, guest_vars, aa_vars>>

\* ---------------------------------------------------------- residue mapping
\* a call of aa_to_index
AaToIndex ==
    /\ aa_out = -1
    /\ aa_out' = aa_to_index(aa_in)
    /\ UNCHANGED aa_in
    /\ UNCHANGED <<input_vars, host_vars, guest_vars, reader_vars>>

\* ------------------------------------------------------------------ inputs
\* residues of the batches: 'A' and 'c'
Residues == {65, 99}

\* the name of the k-th sequence of a batch: "s1", "s2", ..
SeqName(k) == <<115, 48 + k>>

Data(n) == UNION {[1..m -> Residues] : m \in 0..n}

Batches(b, n) ==
    UNION {{[k \in 1..m |-> [name |-> SeqName(k), data |-> f[k]]] :
               f \in [1..m -> Data(n)]} : m \in 0..b}

HostIdle ==
    /\ h_hmm = NoModel
    /\ hk = 0
    /\ dp = <<>>
    /\ path = <<>>
    /\ hi = 0
    /\ hj = 0
    /\ h_score = NEG_INFINITY
    /\ h_results = <<>>

GuestIdle ==
    /\ g_hmm = NoModel
    /\ gk = 0
    /\ prev_scores = <<>>
    /\ curr_scores = <<>>
    /\ gi = 0
    /\ gj = 0
    /\ g_score = NEG_INFINITY
    /\ g_results = <<>>

ReaderOff ==
    /\ rpc = "off"
    /\ file = [ok |-> FALSE, lines |-> <<>>]
    /\ max_sequences = 0
    /\ rl = 0
    /\ current_name = <<>>
    /\ current_data = <<>>
    /\ r_sequences = <<>>

AaOff ==
    /\ aa_in = 0
    /\ aa_out = -1

\* one of the two programs is run on a model length and a batch
Init ==
    /\ hmm_length \in 0..MaxModelLen
    /\ sequences \in Batches(MaxBatch, MaxSeqLen)
    /\ hpc \in {"main", "off"}
    /\ gpc = IF hpc = "main" THEN "off" ELSE "main"
    /\ HostIdle
    /\ GuestIdle
    /\ ReaderOff
    /\ AaOff

Next ==
    \/ HostNew
    \/ HostViterbiStart
    \/ HostCellStep
    \/ HostBestStep
    \/ HostPush
    \/ HostSort
    \/ GuestNew
    \/ GuestViterbiStart
    \/ GuestRowStart
    \/ GuestCellStep
    \/ GuestSwap
    \/ GuestBestStep
    \/ GuestPush
    \/ GuestSort

Spec == Init /\ [][Next]_vars

\* both programs are run on the same model length and the same sequence
PairInit ==
    /\ hmm_length \in 0..MaxModelLen
    /\ sequences \in {b \in Batches(1, MaxPairSeqLen) : Len(b) = 1}
    /\ hpc = "main"
    /\ gpc = "main"
    /\ HostIdle
    /\ GuestIdle
    /\ ReaderOff
    /\ AaOff

PairSpec == PairInit /\ [][Next]_vars

\* the Vec<f64> fields of HMMTransitions and the tables of HMMEmissions
TransitionFields ==
    {"match_to_match", "match_to_insert", "match_to_delete", "insert_to_match",
     "insert_to_insert", "delete_to_match", "delete_to_delete"}

EmissionFields == {"match_emissions", "insert_emissions"}

\* f64 values no logarithm is defined for, in millionths: 0.0 and -0.5
DegenerateValues == {0, -500000}

\* the models search_sequences can be handed, as far as the type HMM goes,
\* that differ from HMM::new(length) in one parameter: a transition
\* probability, or an emission probability of the residue 'A'
DegenerateModels(length) ==
    {[HMMNew(length) EXCEPT ![f][i] = v] :
        f \in TransitionFields, i \in 0..(length - 1), v \in DegenerateValues}
    \cup {[HMMNew(length) EXCEPT ![f][i][0] = v] :
        f \in EmissionFields, i \in 0..(length - 1), v \in DegenerateValues}

\* search_sequences of one of the two programs is called on such a model
\* and a batch of two sequences
DegenerateInit ==
    /\ hmm_length \in 1..MaxDegenerateLen
    /\ sequences \in {b \in Batches(2, 1) : Len(b) = 2}
    /\ hpc \in {"search", "off"}
    /\ gpc = IF hpc = "search" THEN "off" ELSE "search"
    /\ h_hmm \in IF hpc = "search" THEN DegenerateModels(hmm_length) ELSE {NoModel}
    /\ g_hmm \in IF gpc = "search" THEN DegenerateModels(hmm_length) ELSE {NoModel}
    /\ hk = 0
    /\ dp = <<>>
    /\ path = <<>>
    /\ hi = 0
    /\ hj = 0
    /\ h_score = NEG_INFINITY
    /\ h_results = <<>>
    /\ gk = 0
    /\ prev_scores = <<>>
    /\ curr_scores = <<>>
    /\ gi = 0
    /\ gj = 0
    /\ g_score = NEG_INFINITY
    /\ g_results = <<>>
    /\ ReaderOff
    /\ AaOff

DegenerateNext ==
    \/ HostViterbiStart
    \/ HostCellStep
    \/ HostBestStep
    \/ HostPush
    \/ HostSort
    \/ GuestViterbiStart
    \/ GuestRowStart
    \/ GuestCellStep
    \/ GuestSwap
    \/ GuestBestStep
    \/ GuestPush
    \/ GuestSort

DegenerateSpec == DegenerateInit /\ [][DegenerateNext]_vars

ProgramsOff ==
    /\ hmm_length = 0
    /\ sequences = <<>>
    /\ hpc = "off"
    /\ gpc = "off"
    /\ HostIdle
    /\ GuestIdle

\* the lines of the files read: ">a", ">b", ">", "A " and " "
LineSet == {<<62, 97>>, <<62, 98>>, <<62>>, <<65, 32>>, <<32>>}

Files(n) == UNION {[1..m -> LineSet] : m \in 0..n}

\* read_sequences is called on a file, or on the name of no file, and a cap
ReadInit ==
    /\ rpc = "open"
    /\ \/ \E ls \in Files(MaxLines) : file = [ok |-> TRUE, lines |-> ls]
       \/ file = [ok |-> FALSE, lines |-> <<>>]
    /\ max_sequences \in 0..MaxCap
    /\ rl = 0
    /\ current_name = <<>>
    /\ current_data = <<>>
    /\ r_sequences = <<>>
    /\ ProgramsOff
    /\ AaOff

ReadNext ==
    \/ ReadOpen
    \/ ReadLine
    \/ ReadLast
    \/ ReadSynthetic

ReadSpec == ReadInit /\ [][ReadNext]_vars

\* aa_to_index is called on a byte
AaInit ==
    /\ aa_in \in 0..U8_MAX
    /\ aa_out = -1
    /\ ProgramsOff
    /\ ReaderOff

AaNext == AaToIndex

AaSpec == AaInit /\ [][AaNext]_vars

\* ------------------------------------------------------------------ claims
\* every array of the model has length entries, length >= 1, and every
\* probability is in (0, 1]
Prob(p) == p >= 1 /\ p <= 1000000

WellFormed(hmm) ==
    /\ hmm.length >= 1
    /\ \A f \in {hmm.match_to_match, hmm.match_to_insert, hmm.match_to_delete,
                 hmm.insert_to_match, hmm.insert_to_insert,
                 hmm.delete_to_match, hmm.delete_to_delete} :
          /\ DOMAIN f = 0..(hmm.length - 1)
          /\ \A i \in DOMAIN f : Prob(f[i])
    /\ \A e \in {hmm.match_emissions, hmm.insert_emissions} :
          /\ DOMAIN e = 0..(hmm.length - 1)
          /\ \A i \in DOMAIN e : \A j \in 0..(AA_COUNT - 1) : Prob(e[i][j])

\* the sequence the host (the guest) is aligning or has just aligned
HostSeq == sequences[hk + 1].data
GuestSeq == sequences[gk + 1].data

\* C1: with a model of length >= 1, viterbi of the empty sequence returns
\* the start-state baseline 0.0 in both decoders, and neither panics
C1_EmptySequenceScoresZero ==
    /\ (hpc = "ret" /\ h_hmm.length >= 1 /\ Len(HostSeq) = 0) => h_score = Fin(0)
    /\ (gpc = "ret" /\ g_hmm.length >= 1 /\ Len(GuestSeq) = 0) => g_score = Fin(0)
    /\ ~(hpc = "panic" /\ h_hmm.length >= 1)
    /\ ~(gpc = "panic" /\ g_hmm.length >= 1)

\* both decoders have returned from the empty sequence under a model of
\* length >= 1
C1_Witness ==
    /\ hpc = "ret"
    /\ gpc = "ret"
    /\ h_hmm.length >= 1
    /\ Len(HostSeq) = 0
    /\ h_score = Fin(0)
    /\ g_score = Fin(0)

\* C2: with a well-formed model, viterbi never fails and returns a finite
\* score for every sequence
C2_WellFormedModelFiniteScore ==
    /\ (hpc = "ret" /\ WellFormed(h_hmm)) => IsFinite(h_score)
    /\ (gpc = "ret" /\ WellFormed(g_hmm)) => IsFinite(g_score)
    /\ ~(hpc = "panic" /\ WellFormed(h_hmm))
    /\ ~(gpc = "panic" /\ WellFormed(g_hmm))

\* the host has filled row i of the table for the sequence being aligned
HostRowFilled(i) == (hpc = "fill" /\ hi > i) \/ hpc \in {"best", "ret"}

\* C3: the two decoders return the same score, and after each sequence
\* position i the rolling previous row equals row i of the full table
C3_RollingRowEqualsTableRow ==
    /\ (hpc = "ret" /\ gpc = "ret") => h_score = g_score
    /\ (gpc \in {"row", "best"} /\ gi >= 1 /\ HostRowFilled(gi))
          => \A c \in DOMAIN prev_scores : prev_scores[c] = dp[gi][c]

\* C4: HMM::new never returns a model of length 0 (it fails instead), and
\* returns a model of the length asked for when that is >= 1
C4_NoModelOfLengthZero ==
    /\ hpc \in {"search", "fill", "best", "ret", "done", "panic"}
          => (h_hmm.length >= 1 /\ h_hmm.length = hmm_length)
    /\ gpc \in {"search", "row", "cell", "swap", "best", "ret", "done", "panic"}
          => (g_hmm.length >= 1 /\ g_hmm.length = hmm_length)

\* the place in the batch of the sequence a result names
Presented(r) == r.sequence_name[2] - 48

\* rs is in descending order of score, e-values ascending, ties in the order
\* the sequences were presented
RankedStably(rs) ==
    \A p, q \in 1..Len(rs) :
        p < q =>
            /\ FGe(rs[p].score, rs[q].score)
            /\ ExpLe(rs[p].e_value, rs[q].e_value)
            /\ (rs[p].score = rs[q].score => Presented(rs[p]) < Presented(rs[q]))

\* C5: search_sequences returns one result per sequence, in descending
\* order of score (ascending e-value), equal scores in the order presented
C5_StableDescendingOrder ==
    /\ hpc = "done" => (Len(h_results) = Len(sequences) /\ RankedStably(h_results))
    /\ gpc = "done" => (Len(g_results) = Len(sequences) /\ RankedStably(g_results))
    /\ ~(hpc = "panic" /\ h_hmm.length >= 1)
    /\ ~(gpc = "panic" /\ g_hmm.length >= 1)

\* the search has returned two results, the second sequence ranked first
C5_Witness ==
    /\ hpc = "done"
    /\ Len(h_results) = 2
    /\ Presented(h_results[1]) = 2
    /\ FGt(h_results[1].score, h_results[2].score)

\* r is the result of sequence seq with the score the decoder gives it alone
ResultOf(r, seq, score) ==
    /\ r.sequence_name = seq.name
    /\ r.score = score
    /\ r.e_value = Exp(FNeg(score))
    /\ r.alignment_start = 0
    /\ r.alignment_end = Len(seq.data)

\* C6: every result belongs to exactly one sequence of the batch and holds
\* its name, its viterbi score, the e-value of that score and the span
\* [0, residue count)
C6_ResultBelongsToItsSequence ==
    /\ hpc = "done" =>
          /\ \A p \in 1..Len(h_results) :
                /\ Presented(h_results[p]) \in 1..Len(sequences)
                /\ ResultOf(h_results[p], sequences[Presented(h_results[p])],
                            HostViterbi(h_hmm, sequences[Presented(h_results[p])].data))
          /\ \A p, q \in 1..Len(h_results) :
                p # q => h_results[p].sequence_name # h_results[q].sequence_name
    /\ gpc = "done" =>
          /\ \A p \in 1..Len(g_results) :
                /\ Presented(g_results[p]) \in 1..Len(sequences)
                /\ ResultOf(g_results[p], sequences[Presented(g_results[p])],
                            GuestViterbi(g_hmm, sequences[Presented(g_results[p])].data))
          /\ \A p, q \in 1..Len(g_results) :
                p # q => g_results[p].sequence_name # g_results[q].sequence_name

\* the search has returned the results of two sequences of different
\* lengths, reordered
C6_Witness ==
    /\ hpc = "done"
    /\ Len(h_results) = 2
    /\ Presented(h_results[1]) = 2
    /\ h_results[1].alignment_end # h_results[2].alignment_end

\* a result with a finite score never ranks after one with score -inf
FiniteBeforeInfinite(rs) ==
    \A p, q \in 1..Len(rs) :
        (IsFinite(rs[p].score) /\ rs[q].score = NEG_INFINITY) => p < q

\* a search that has neither returned nor panicked has its next step: the
\* guard of the action at its place holds
HasNextStep ==
    /\ hpc = "search" => hk <= Len(sequences)
    /\ hpc \in {"fill", "best", "ret"} => hk < Len(sequences)
    /\ hpc = "fill" => (hi <= Len(HostSeq) /\ hj < h_hmm.length)
    /\ gpc = "search" => gk <= Len(sequences)
    /\ gpc \in {"row", "cell", "swap", "best", "ret"} => gk < Len(sequences)
    /\ gpc \in {"row", "cell", "swap"} => gi < Len(GuestSeq)
    /\ gpc = "cell" => gj < g_hmm.length

\* C9: a score of -inf makes no search fail (a search panics only on the
\* model of length 0, before any score, and otherwise has a next step until
\* it returns); the search returns one result per sequence and every -inf
\* result ranks after every finite one
C9_InfiniteScoreIsOrdinaryResult ==
    /\ HasNextStep
    /\ hpc = "panic" => (h_hmm.length = 0 /\ h_results = <<>>)
    /\ gpc = "panic" => (g_hmm.length = 0 /\ g_results = <<>>)
    /\ hpc = "done" => (Len(h_results) = Len(sequences) /\ FiniteBeforeInfinite(h_results))
    /\ gpc = "done" => (Len(g_results) = Len(sequences) /\ FiniteBeforeInfinite(g_results))

\* the search has returned a -inf result, presented first, behind a finite one
C9_Witness ==
    /\ hpc = "done"
    /\ Len(h_results) = 2
    /\ IsFinite(h_results[1].score)
    /\ h_results[2].score = NEG_INFINITY
    /\ Presented(h_results[2]) = 1

\* the score returned is the decoder's score of that sequence alone
ScoreOfSequenceAlone ==
    /\ hpc = "ret" => h_score = HostViterbi(h_hmm, HostSeq)
    /\ gpc = "ret" => g_score = GuestViterbi(g_hmm, GuestSeq)
    /\ hpc \in {"search", "done"} =>
          \A p, q \in 1..Len(h_results) :
              sequences[Presented(h_results[p])].data
                  = sequences[Presented(h_results[q])].data
              => h_results[p].score = h_results[q].score

\* once built, the model is what HMM::new returned, whatever step is taken
ModelUnchanged ==
    /\ h_hmm.length >= 0 => h_hmm' = h_hmm
    /\ g_hmm.length >= 0 => g_hmm' = g_hmm

\* C10: viterbi is a function of (model, sequence): the score returned for
\* a sequence is the score of that sequence alone, wherever it stands in
\* the batch, equal sequences get equal scores, and no step changes the model
C10_AlignIsPure == []ScoreOfSequenceAlone /\ [][ModelUnchanged]_vars

\* the second sequence of a batch has been scored, after a different first
C10_Witness ==
    /\ hpc = "ret"
    /\ hk = 1
    /\ sequences[1].data # sequences[2].data
    /\ IsFinite(h_score)
    /\ h_results[1].score # h_score

\* b is the symbol at place i of the alphabet, in upper or lower case
IsSymbol(b, i) == b = AMINO_ACIDS[i] \/ b = AMINO_ACIDS[i] + 32

\* C7: aa_to_index maps every byte into [0, 20): a symbol of the alphabet,
\* in upper or lower case, to its own place (the places are distinct), and
\* every other byte to 0
C7_ResidueIndex ==
    /\ \A i, j \in 1..AA_COUNT : i # j => AMINO_ACIDS[i] # AMINO_ACIDS[j]
    /\ aa_out # -1 =>
          /\ aa_out \in 0..(AA_COUNT - 1)
          /\ \A i \in 1..AA_COUNT : IsSymbol(aa_in, i) => aa_out = i - 1
          /\ (\A i \in 1..AA_COUNT : ~IsSymbol(aa_in, i)) => aa_out = 0

\* the lower-case symbol 'y' has been mapped to the last place
C7_Witness == aa_in = 121 /\ aa_out = 19

RECURSIVE RecordData(_, _)
\* the trimmed lines from line p up to the next header or the end, joined
RecordData(lines, p) ==
    IF p > Len(lines) \/ IsHeader(Trim(lines[p])) THEN <<>>
    ELSE Trim(lines[p]) \o RecordData(lines, p + 1)

RECURSIVE RecordsFrom(_, _)
\* the records of a file from line p on: every header line starts one
RecordsFrom(lines, p) ==
    IF p > Len(lines) THEN <<>>
    ELSE IF IsHeader(Trim(lines[p]))
    THEN <<[name |-> SubSeq(Trim(lines[p]), 2, Len(Trim(lines[p]))),
            data |-> RecordData(lines, p + 1)]>> \o RecordsFrom(lines, p + 1)
    ELSE RecordsFrom(lines, p + 1)

\* C8: of a readable file with at most max_sequences records,
\* read_sequences returns every record, in order, those with no residue
\* line included
C8_EveryRecordIsRead ==
    (rpc = "done" /\ file.ok /\ Len(RecordsFrom(file.lines, 1)) <= max_sequences)
        => r_sequences = RecordsFrom(file.lines, 1)

\* the largest of a set of scores, none of them NaN
MaxOf(S) == CHOOSE x \in S : \A y \in S : FGe(x, y)

\* the recurrence of Match in column j >= 1: the emission of residue index
\* aa plus the best way into the column from the row before
MatchRecurrence(hmm, aa, before, j) ==
    FAdd(Ln(hmm.match_emissions[j][aa]),
         MaxOf({FAdd(before[(j - 1) * 3], Ln(hmm.match_to_match[j - 1])),
                FAdd(before[(j - 1) * 3 + 1], Ln(hmm.insert_to_match[j - 1])),
                FAdd(before[(j - 1) * 3 + 2], Ln(hmm.delete_to_match[j - 1]))}))

\* the recurrence of Insert in column j
InsertRecurrence(hmm, aa, before, j) ==
    FAdd(Ln(hmm.insert_emissions[j][aa]),
         MaxOf({FAdd(before[j * 3], Ln(hmm.match_to_insert[j])),
                FAdd(before[j * 3 + 1], Ln(hmm.insert_to_insert[j]))}))

\* C11: once the host's table is filled, in every row i >= 1 of it, and in
\* the row the guest has just filled, Match of column j >= 1 and Insert of every column
\* are the emission of residue i plus the best predecessor of the row before
C11_MatchInsertRecurrence ==
    /\ hpc \in {"best", "ret"} =>
          \A i \in 1..Len(HostSeq) : \A j \in 0..(h_hmm.length - 1) :
              /\ j >= 1 => dp[i][j * 3]
                             = MatchRecurrence(h_hmm, aa_to_index(HostSeq[i]),
                                               dp[i - 1], j)
              /\ dp[i][j * 3 + 1]
                    = InsertRecurrence(h_hmm, aa_to_index(HostSeq[i]),
                                       dp[i - 1], j)
    /\ gpc = "swap" =>
          \A j \in 0..(g_hmm.length - 1) :
              /\ j >= 1 => curr_scores[j * 3]
                             = MatchRecurrence(g_hmm, aa_to_index(GuestSeq[gi + 1]),
                                               prev_scores, j)
              /\ curr_scores[j * 3 + 1]
                    = InsertRecurrence(g_hmm, aa_to_index(GuestSeq[gi + 1]),
                                       prev_scores, j)

\* the host's table is filled for two residues, Match of column 2 reached
\* through the Delete state of row 0, and the guest has filled its second row
C11_Witness ==
    /\ hpc = "best"
    /\ Len(HostSeq) >= 2
    /\ h_hmm.length >= 3
    /\ path[1][6] = "Delete"
    /\ IsFinite(dp[2][6])
    /\ IsFinite(dp[2][4])
    /\ gpc = "swap"
    /\ gi = 1
    /\ IsFinite(curr_scores[6])

\* the candidates of the cells of the host's table, read from the table, each
\* with the state it comes from, in the order Match, Insert, Delete
MatchCandidates(i, j) ==
    LET emit == Ln(h_hmm.match_emissions[j][aa_to_index(HostSeq[i])])
    IN  << [from |-> "Match",
            score |-> FAdd(FAdd(dp[i - 1][(j - 1) * 3],
                                Ln(h_hmm.match_to_match[j - 1])), emit)],
           [from |-> "Insert",
            score |-> FAdd(FAdd(dp[i - 1][(j - 1) * 3 + 1],
                                Ln(h_hmm.insert_to_match[j - 1])), emit)],
           [from |-> "Delete",
            score |-> FAdd(FAdd(dp[i - 1][(j - 1) * 3 + 2],
                                Ln(h_hmm.delete_to_match[j - 1])), emit)] >>

InsertCandidates(i, j) ==
    LET emit == Ln(h_hmm.insert_emissions[j][aa_to_index(HostSeq[i])])
    IN  << [from |-> "Match",
            score |-> FAdd(FAdd(dp[i - 1][j * 3],
                                Ln(h_hmm.match_to_insert[j])), emit)],
           [from |-> "Insert",
            score |-> FAdd(FAdd(dp[i - 1][j * 3 + 1],
                                Ln(h_hmm.insert_to_insert[j])), emit)] >>

DeleteCandidates(i, j) ==
    << [from |-> "Match",
        score |-> FAdd(dp[i][(j - 1) * 3], Ln(h_hmm.match_to_delete[j - 1]))],
       [from |-> "Delete",
        score |-> FAdd(dp[i][(j - 1) * 3 + 2], Ln(h_hmm.delete_to_delete[j - 1]))] >>

\* the places of the candidates no other candidate beats
BestPlaces(cands) ==
    {p \in 1..Len(cands) : \A q \in 1..Len(cands) : FGe(cands[p].score, cands[q].score)}

\* two or more candidates share the best score
Tied(cands) == Cardinality(BestPlaces(cands)) >= 2

\* the first of the best candidates
FirstBest(cands) ==
    cands[CHOOSE p \in BestPlaces(cands) : \A q \in BestPlaces(cands) : p <= q]

\* the cell holds the best score, and on a tie its traceback entry is the
\* first of the tied candidates
TieBreak(cands, score, from) ==
    /\ BestPlaces(cands) # {}
    /\ score = FirstBest(cands).score
    /\ Tied(cands) => from = FirstBest(cands).from

\* C12: once the host's table is filled, every cell holds the maximum of
\* its candidates, and when candidates tie at the best score its traceback entry
\* is the first of them in the order Match, Insert, Delete
C12_TieBreakOrder ==
    hpc \in {"best", "ret"} =>
        \A i \in 0..Len(HostSeq) : \A j \in 0..(h_hmm.length - 1) :
            /\ (i >= 1 /\ j >= 1) =>
                   TieBreak(MatchCandidates(i, j), dp[i][j * 3], path[i][j * 3])
            /\ i >= 1 =>
                   TieBreak(InsertCandidates(i, j),
                            dp[i][j * 3 + 1], path[i][j * 3 + 1])
            /\ j >= 1 =>
                   TieBreak(DeleteCandidates(i, j),
                            dp[i][j * 3 + 2], path[i][j * 3 + 2])

\* the host's table is filled for three residues: the Match and Insert
\* candidates of Match[3][2] tie at a finite score and the cell is recorded
\* as coming from Match, as is an Insert cell whose candidates are both -inf
C12_Witness ==
    /\ hpc = "best"
    /\ Len(HostSeq) = 3
    /\ h_hmm.length = 3
    /\ Tied(MatchCandidates(3, 2))
    /\ IsFinite(dp[3][6])
    /\ path[3][6] = "Match"
    /\ Tied(InsertCandidates(1, 1))
    /\ dp[1][4] = NEG_INFINITY
    /\ path[1][4] = "Match"

\* the base row: Match of column 0 is 0, every other state is -inf
BaseRow(row) ==
    /\ row[0] = Fin(0)
    /\ \A c \in DOMAIN row : c # 0 => row[c] = NEG_INFINITY

\* C13: once the table is filled, row 0 is the base row and the three
\* states of column 0 are -inf in every row i >= 1; in the guest, the row it
\* starts from is the base row and column 0 of every row it fills is -inf
C13_BaseCase ==
    /\ hpc \in {"best", "ret"} =>
          /\ BaseRow(dp[0])
          /\ \A i \in 1..Len(HostSeq) : \A c \in 0..2 : dp[i][c] = NEG_INFINITY
    /\ (gpc \in {"row", "cell", "swap"} /\ gi = 0) => BaseRow(prev_scores)
    /\ gpc = "swap" => \A c \in 0..2 : curr_scores[c] = NEG_INFINITY

\* the recurrence of Delete in column j >= 1, over the states of one row
DeleteRecurrence(hmm, row, j) ==
    MaxOf({FAdd(row[(j - 1) * 3], Ln(hmm.match_to_delete[j - 1])),
           FAdd(row[(j - 1) * 3 + 2], Ln(hmm.delete_to_delete[j - 1]))})

\* the host has left column j of row i behind
HostCellFilled(i, j) == HostRowFilled(i) \/ (hpc = "fill" /\ hi = i /\ hj > j)

\* every Delete state computed so far is the recurrence over the states its
\* own row holds now
DeleteFromSameRow ==
    /\ hpc \in {"fill", "best", "ret"} =>
          \A i \in 0..Len(HostSeq) : \A j \in 1..(h_hmm.length - 1) :
              HostCellFilled(i, j) =>
                  dp[i][j * 3 + 2] = DeleteRecurrence(h_hmm, dp[i], j)
    /\ gpc \in {"cell", "swap"} =>
          \A j \in 1..(g_hmm.length - 1) :
              (gpc = "swap" \/ gj > j) =>
                  curr_scores[j * 3 + 2] = DeleteRecurrence(g_hmm, curr_scores, j)

\* a step of the fill writes the three states of its own cell and nothing
\* else: no state of an earlier column or row is written again
WritesOwnCellOnly ==
    /\ hpc = "fill" =>
          \A i \in DOMAIN dp : \A c \in DOMAIN dp[i] :
              (i # hi \/ c \div 3 # hj) =>
                  (dp'[i][c] = dp[i][c] /\ path'[i][c] = path[i][c])
    /\ gpc = "cell" =>
          /\ prev_scores' = prev_scores
          /\ \A c \in DOMAIN curr_scores :
                 c \div 3 # gj => curr_scores'[c] = curr_scores[c]

\* C14: Delete[i][j], j >= 1, is the maximum of Match[i][j-1] + ln m2d[j-1]
\* and Delete[i][j-1] + ln d2d[j-1] of the same row (the current row in the
\* guest), and the states it read are final: no later step of the fill
\* writes them
C14_DeleteReadsFinalSameRow == []DeleteFromSameRow /\ [][WritesOwnCellOnly]_vars

\* both decoders have filled the row of the first residue: Delete of column
\* 2 is finite, through Match of column 1 of that row, and is not what the
\* row before would give
C14_Witness ==
    /\ hpc = "fill"
    /\ hi = 2
    /\ hj = 0
    /\ h_hmm.length = 3
    /\ IsFinite(dp[1][8])
    /\ dp[1][8] = FAdd(dp[1][3], Ln(h_hmm.match_to_delete[1]))
    /\ dp[1][8] # DeleteRecurrence(h_hmm, dp[0], 2)
    /\ gpc = "swap"
    /\ gi = 0
    /\ IsFinite(curr_scores[8])
    /\ curr_scores[8] # DeleteRecurrence(g_hmm, prev_scores, 2)

\* the Match states of a row
MatchStates(row, model_len) == {row[j * 3] : j \in 0..(model_len - 1)}

\* values an Insert or Delete state could hold instead
OtherScores == {NEG_INFINITY, Fin(0), Fin(-1000), INFINITY}

\* C15: the score viterbi returns is the maximum of the Match states of the
\* final row, and the final loop gives the same score whatever the Insert
\* and Delete states of that row hold
C15_ScoreIsBestFinalMatch ==
    /\ hpc = "ret" =>
          /\ h_score = MaxOf(MatchStates(dp[Len(HostSeq)], h_hmm.length))
          /\ \A c \in DOMAIN dp[Len(HostSeq)] : \A v \in OtherScores :
                 c % 3 # 0 =>
                     HostBest([dp |-> [dp EXCEPT ![Len(HostSeq)][c] = v],
                               path |-> path],
                              Len(HostSeq), h_hmm.length) = h_score
    /\ gpc = "ret" =>
          /\ g_score = MaxOf(MatchStates(prev_scores, g_hmm.length))
          /\ \A c \in DOMAIN prev_scores : \A v \in OtherScores :
                 c % 3 # 0 =>
                     GuestBest([prev_scores EXCEPT ![c] = v], g_hmm.length) = g_score

\* both decoders have returned a finite score although an Insert state of
\* the final row is larger than every Match state of that row
C15_Witness ==
    /\ hpc = "ret"
    /\ gpc = "ret"
    /\ IsFinite(h_score)
    /\ IsFinite(g_score)
    /\ \E j \in 0..(h_hmm.length - 1) : FGt(dp[Len(HostSeq)][j * 3 + 1], h_score)
    /\ \E j \in 0..(g_hmm.length - 1) : FGt(prev_scores[j * 3 + 1], g_score)

\* no panic of either search
NoPanic == hpc # "panic" /\ gpc # "panic"

\* no state of a table or row, and no score, is not-a-number
NoNaN ==
    /\ \A i \in DOMAIN dp : \A c \in DOMAIN dp[i] : ~IsNaN(dp[i][c])
    /\ \A c \in DOMAIN prev_scores : ~IsNaN(prev_scores[c])
    /\ \A c \in DOMAIN curr_scores : ~IsNaN(curr_scores[c])
    /\ ~IsNaN(h_score)
    /\ ~IsNaN(g_score)
    /\ \A p \in 1..Len(h_results) : ~IsNaN(h_results[p].score)
    /\ \A p \in 1..Len(g_results) : ~IsNaN(g_results[p].score)

\* a cell with a candidate above -inf does not hold -inf
NotNegInfOverBetter(cands, score) ==
    (\E p \in 1..Len(cands) : FGt(cands[p].score, NEG_INFINITY))
        => score # NEG_INFINITY

\* the candidate at place p of a cell uses parameter x: it is -inf when x
\* has no logarithm
ThroughIsNegInf(cands, p, x) == x <= 0 => cands[p].score = NEG_INFINITY

\* what the claim says of the cells the host has computed
DegenerateCells ==
    hpc \in {"fill", "best", "ret"} =>
        \A i \in 0..Len(HostSeq) : \A j \in 0..(h_hmm.length - 1) :
            HostRowFilled(i) =>
                /\ (i >= 1 /\ j >= 1) =>
                      /\ NotNegInfOverBetter(MatchCandidates(i, j), dp[i][j * 3])
                      /\ ThroughIsNegInf(MatchCandidates(i, j), 1,
                                         h_hmm.match_to_match[j - 1])
                      /\ ThroughIsNegInf(MatchCandidates(i, j), 2,
                                         h_hmm.insert_to_match[j - 1])
                      /\ ThroughIsNegInf(MatchCandidates(i, j), 3,
                                         h_hmm.delete_to_match[j - 1])
                      /\ \A p \in 1..3 :
                            ThroughIsNegInf(MatchCandidates(i, j), p,
                                h_hmm.match_emissions[j][aa_to_index(HostSeq[i])])
                /\ i >= 1 =>
                      /\ NotNegInfOverBetter(InsertCandidates(i, j), dp[i][j * 3 + 1])
                      /\ ThroughIsNegInf(InsertCandidates(i, j), 1,
                                         h_hmm.match_to_insert[j])
                      /\ ThroughIsNegInf(InsertCandidates(i, j), 2,
                                         h_hmm.insert_to_insert[j])
                      /\ \A p \in 1..2 :
                            ThroughIsNegInf(InsertCandidates(i, j), p,
                                h_hmm.insert_emissions[j][aa_to_index(HostSeq[i])])
                /\ j >= 1 =>
                      /\ NotNegInfOverBetter(DeleteCandidates(i, j), dp[i][j * 3 + 2])
                      /\ ThroughIsNegInf(DeleteCandidates(i, j), 1,
                                         h_hmm.match_to_delete[j - 1])
                      /\ ThroughIsNegInf(DeleteCandidates(i, j), 2,
                                         h_hmm.delete_to_delete[j - 1])

\* rs is in descending order of score
Descending(rs) == \A p, q \in 1..Len(rs) : p < q => FGe(rs[p].score, rs[q].score)

\* the search returns one result per sequence, in descending order
CompletesOrdered ==
    /\ HasNextStep
    /\ hpc = "done" => (Len(h_results) = Len(sequences) /\ Descending(h_results))
    /\ gpc = "done" => (Len(g_results) = Len(sequences) /\ Descending(g_results))

IsComplete(r) == Len(r.name) > 0 /\ Len(r.data) > 0

\* the records of a file that have a name and residues, in order
CompleteRecords(lines) == SelectSeq(RecordsFrom(lines, 1), IsComplete)

\* rs is the beginning of the sequence all
IsPrefix(rs, all) ==
    /\ Len(rs) <= Len(all)
    /\ \A p \in 1..Len(rs) : rs[p] = all[p]

\* C17: read_sequences returns at most max_sequences sequences, from a file
\* or from the synthetic fallback, for every cap, 0 included; what it returns
\* from a file is the beginning of the file's records, none of them twice,
\* and the synthetic records are distinct
C17_NeverMoreThanCap ==
    rpc = "done" =>
        /\ Len(r_sequences) <= max_sequences
        /\ file.ok => IsPrefix(r_sequences, CompleteRecords(file.lines))
        /\ ~file.ok => \A p, q \in 1..Len(r_sequences) :
                           p # q => r_sequences[p].name # r_sequences[q].name

====
